---- MODULE Spec2Model ----
(***************************************************************************)
(* healthchecks-decorator: src/src/healthchecks_decorator/decorator.py     *)
(*                                                                         *)
(* Python values are records [cls, v]: cls is the Python class, v the      *)
(* payload.  A str is a sequence of tokens: a token is a run of URL-safe   *)
(* word characters ("https", "h", "a") or one delimiter character          *)
(* (":", "/", "?", "#", ";", "[", " ").  The urllib functions the module   *)
(* calls are modelled on token sequences as CPython 3.11 computes them.    *)
(***************************************************************************)
EXTENDS Integers, Sequences, FiniteSets, TLC

VARIABLES
    environ,       \* os.environ restricted to the three HEALTHCHECK_* names
    config,        \* the fields stored in the HealthcheckConfig of the decorated function
    decorated_as,  \* what healthcheck(func) gave: "none" (not decorated yet), "wrapper", "func", "raised"
    call,          \* the last call: events (its urlopen calls and func invocation, in order),
                   \* target (the outcome of func) and result (what the caller got)
    ncalls,        \* calls made so far
    attr,          \* last attribute read of config: [name, value]
    url_op         \* last URL operation applied to config: [op, out]

vars == <<environ, config, decorated_as, call, ncalls, attr, url_op>>

----------------------------------------------------------------------------
(* Python values *)

PyNone == [cls |-> "NoneType", v |-> <<>>]

PyStr(s) == [cls |-> "str", v |-> s]

PyBool(b) == [cls |-> "bool", v |-> IF b THEN <<"True">> ELSE <<>>]

PyFloat == [cls |-> "float", v |-> <<"123.23">>]

PyBytes(s) == [cls |-> "bytes", v |-> s]

PyDict(items) == [cls |-> "dict", v |-> items]

PyList(items) == [cls |-> "list", v |-> items]

PyExc(c, msg) == [cls |-> c, v |-> <<msg>>]

\* bool(x): None, "", False and empty containers are falsy
Truthy(x) == x.cls # "NoneType" /\ x.v # <<>>

\* the exception classes that derive from Exception (SystemExit and
\* KeyboardInterrupt derive from BaseException only)
ExceptionClasses ==
    {"Exception", "OSError", "ValueError", "TypeError", "AttributeError",
     "AssertionError", "UnicodeEncodeError", "BadStatusLine", "InvalidURL"}

IsSubclass(c, base) ==
    CASE base = "BaseException" -> TRUE
      [] base = "Exception" -> c \in ExceptionClasses
      [] base = "ValueError" -> c \in {"ValueError", "UnicodeEncodeError"}
      [] OTHER -> c = base

\* outcome of evaluating an expression: it returns val or raises val
Return(x) == [kind |-> "return", val |-> x]

Raise(e) == [kind |-> "raise", val |-> e]

NoOutcome == [kind |-> "none", val |-> PyNone]

----------------------------------------------------------------------------
(* str operations on token sequences *)

Words == {"http", "https", "HTTPS", "ftp", "h", "a", "b", "q", "f", "p",
          "start", "fail", "true", "TRue", "false", "yes", "1"}

\* str.lower(), token by token
LowerTok(t) ==
    CASE t = "HTTPS" -> "https"
      [] t = "TRue" -> "true"
      [] OTHER -> t

Lower(s) == [i \in 1..Len(s) |-> LowerTok(s[i])]

\* s.find(c, from): 1-based index of the first c at or after from, 0 when absent
FindFrom(s, c, from) ==
    LET hits == {i \in from..Len(s) : s[i] = c}
    IN  IF hits = {} THEN 0 ELSE CHOOSE i \in hits : \A j \in hits : i <= j

Find(s, c) == FindFrom(s, c, 1)

\* s.rfind(c): 1-based index of the last c, 0 when absent
RFind(s, c) ==
    LET hits == {i \in 1..Len(s) : s[i] = c}
    IN  IF hits = {} THEN 0 ELSE CHOOSE i \in hits : \A j \in hits : i >= j

Contains(s, c) == Find(s, c) # 0

\* s[i:] with a 1-based i
From(s, i) == SubSeq(s, i, Len(s))

\* s[:i] exclusive, with a 1-based i
Upto(s, i) == SubSeq(s, 1, i - 1)

EndsWith(s, c) == Len(s) > 0 /\ s[Len(s)] = c

\* s[:2] == "//"
StartsWithSlashes(s) == Len(s) >= 2 /\ s[1] = "/" /\ s[2] = "/"

RECURSIVE LStrip(_)
LStrip(s) == IF Len(s) > 0 /\ s[1] = " " THEN LStrip(Tail(s)) ELSE s

RECURSIVE RStrip(_)
RStrip(s) == IF EndsWith(s, " ") THEN RStrip(Upto(s, Len(s))) ELSE s

Strip(s) == RStrip(LStrip(s))

----------------------------------------------------------------------------
(* urllib.parse *)

uses_params == {<<>>, <<"ftp">>, <<"http">>, <<"https">>}

uses_netloc == {<<>>, <<"ftp">>, <<"http">>, <<"https">>}

ParseResult(scheme, netloc, path, params, query, fragment) ==
    [scheme |-> scheme, netloc |-> netloc, path |-> path,
     params |-> params, query |-> query, fragment |-> fragment]

\* url.split(c, 1) given i = url.find(c): <<before, after>>, after empty when c is absent
SplitAt(url, i) == IF i # 0 THEN <<Upto(url, i), From(url, i + 1)>> ELSE <<url, <<>>>>

\* the scheme test of urlsplit given i = url.find(":"): <<scheme, rest>>
SplitScheme(url, i) ==
    IF /\ i > 1
       /\ url[1] \in Words \ {"1"}
       /\ \A k \in 1..(i - 1) : url[k] \in Words
    THEN <<Lower(Upto(url, i)), From(url, i + 1)>>
    ELSE <<<<>>, url>>

\* position of the end of the domain part: the first of "/?#" at or after start
NetlocEnd(url, start) ==
    LET hits == {i \in start..Len(url) : url[i] \in {"/", "?", "#"}}
    IN  IF hits = {} THEN Len(url) + 1
        ELSE CHOOSE i \in hits : \A j \in hits : i <= j

\* _splitnetloc(url, 2) when url[:2] == "//": <<netloc, rest>>
SplitNetloc(url, delim) ==
    IF StartsWithSlashes(url)
    THEN <<SubSeq(url, 3, delim - 1), From(url, delim)>>
    ELSE <<<<>>, url>>

\* urlsplit, last step: the IPv6 bracket check and the result (params still in path)
urlsplit_result(scheme, netloc, pq, fragment) ==
    IF \/ (Contains(netloc, "[") /\ ~Contains(netloc, "]"))
       \/ (Contains(netloc, "]") /\ ~Contains(netloc, "["))
    THEN Raise(PyExc("ValueError", "Invalid IPv6 URL"))
    ELSE Return(ParseResult(scheme, netloc, pq[1], <<>>, pq[2], fragment))

\* urlsplit: "?" splits the query off what is left of the fragment split
urlsplit_query(scheme, netloc, uf) ==
    urlsplit_result(scheme, netloc, SplitAt(uf[1], Find(uf[1], "?")), uf[2])

\* urlsplit: "#" splits the fragment off what follows the netloc
urlsplit_fragment(scheme, nr) ==
    urlsplit_query(scheme, nr[1], SplitAt(nr[2], Find(nr[2], "#")))

\* urlsplit: the netloc of what follows the scheme
urlsplit_netloc(sr) ==
    urlsplit_fragment(sr[1], SplitNetloc(sr[2], NetlocEnd(sr[2], 3)))

\* urlsplit: the scheme of the stripped url
urlsplit_scheme(url) == urlsplit_netloc(SplitScheme(url, Find(url, ":")))

\* urlsplit(url) for a str: Return(ParseResult) or Raise(ValueError)
urlsplit(s) == urlsplit_scheme(LStrip(s))

\* _splitparams(url) given the index of its ";" (0: none in the last segment)
SplitParamsAt(url, i) ==
    IF i = 0 THEN <<url, <<>>>> ELSE <<Upto(url, i), From(url, i + 1)>>

\* _splitparams(url), called when ";" is in url
splitparams(url) ==
    SplitParamsAt(url, IF Contains(url, "/")
                       THEN FindFrom(url, ";", RFind(url, "/"))
                       ELSE Find(url, ";"))

WithParams(r, pp) ==
    Return(ParseResult(r.scheme, r.netloc, pp[1], pp[2], r.query, r.fragment))

\* urlparse, after urlsplit: the params of the last path segment
urlparse_params(sp) ==
    IF sp.kind = "raise" THEN sp
    ELSE IF sp.val.scheme \in uses_params /\ Contains(sp.val.path, ";")
    THEN WithParams(sp.val, splitparams(sp.val.path))
    ELSE sp

\* urlparse(url): a str is split; a truthy object of another class has no
\* .decode; a falsy one is taken for empty
urlparse(x) ==
    IF x.cls = "str" THEN urlparse_params(urlsplit(x.v))
    ELSE IF Truthy(x) THEN Raise(PyExc("AttributeError", "no attribute decode"))
    ELSE Return(ParseResult(<<>>, <<>>, <<>>, <<>>, <<>>, <<>>))

\* urlunsplit: "//" netloc before the path
WithNetloc(scheme, netloc, path) ==
    IF \/ netloc # <<>>
       \/ (scheme # <<>> /\ scheme \in uses_netloc /\ ~StartsWithSlashes(path))
    THEN <<"/", "/">> \o netloc
         \o (IF path # <<>> /\ path[1] # "/" THEN <<"/">> ELSE <<>>)
         \o path
    ELSE path

WithScheme(scheme, url) == IF scheme # <<>> THEN scheme \o <<":">> \o url ELSE url

\* url + delim + part when part is not empty
WithPart(url, delim, part) == IF part # <<>> THEN url \o <<delim>> \o part ELSE url

urlunsplit(scheme, netloc, path, query, fragment) ==
    WithPart(WithPart(WithScheme(scheme, WithNetloc(scheme, netloc, path)),
                      "?", query),
             "#", fragment)

urlunparse(r) ==
    urlunsplit(r.scheme, r.netloc, WithPart(r.path, ";", r.params), r.query, r.fragment)

----------------------------------------------------------------------------
(* urllib.request.urlopen and urllib.parse.urlencode, as the module uses them *)

\* what the network can do to a request that was sent: answer, fail with an
\* OSError (URLError, timeout, refused connection), or answer with a malformed
\* status line, which http.client raises as BadStatusLine (not an OSError)
NetOutcomes == {"ok", "OSError", "BadStatusLine"}

\* the handler chosen by the URL type, given <<host, selector>>
urlopen_handler(type, hs, net) ==
    CASE type \in {<<"http">>, <<"https">>} ->
            IF hs[1] = <<>> THEN "OSError"
            ELSE IF Contains(hs[1], " ") \/ Contains(hs[2], " ") THEN "InvalidURL"
            ELSE net
      [] type = <<"ftp">> ->
            IF hs[1] = <<>> \/ net # "ok" THEN "OSError" ELSE "ok"
      [] OTHER -> "OSError"

\* Request._parse: the host of what follows the type
urlopen_host(type, rest, net) ==
    urlopen_handler(type, SplitNetloc(rest, NetlocEnd(rest, 3)), net)

\* Request._parse given i = url.find(":"): no type before the first "/" is a ValueError
urlopen_type(url, i, net) ==
    IF i > 1 /\ ~Contains(Upto(url, i), "/")
    THEN urlopen_host(Lower(Upto(url, i)), From(url, i + 1), net)
    ELSE "ValueError"

\* Request.full_url: the fragment is dropped
urlopen_tag(url, net) ==
    urlopen_type(SplitAt(url, RFind(url, "#"))[1], Find(url, ":"), net)

\* urlopen(endpoint, data=data, timeout=timeout): "ok" or the class it raises;
\* Request() parses the url for its origin host, which raises on a bad bracket
urlopen(endpoint, net) ==
    IF endpoint.cls # "str" THEN "AttributeError"
    ELSE IF urlsplit(Strip(endpoint.v)).kind = "raise" THEN "ValueError"
    ELSE urlopen_tag(Strip(endpoint.v), net)

\* an element of a returned list, or a (key, value) item of a returned dict
Item(isTuple, elems) == [tuple |-> isTuple, elems |-> elems]

\* quote_via(str(x)): the word tokens are unreserved characters; a lone
\* surrogate cannot be encoded as UTF-8
Unquotable(tok) == tok = "\\udcff"

RECURSIVE JoinItems(_)
JoinItems(items) ==
    IF items = <<>> THEN <<>>
    ELSE <<items[1].elems[1], "=", items[1].elems[2]>>
         \o (IF Len(items) > 1 THEN <<"&">> ELSE <<>>)
         \o JoinItems(Tail(items))

\* urlencode(query): Return(str) or Raise
urlencode(query) ==
    IF /\ query.cls # "dict"
       /\ \/ query.cls \notin {"list", "str", "bytes"}
          \/ (Len(query.v) > 0 /\ (query.cls # "list" \/ ~query.v[1].tuple))
    THEN Raise(PyExc("TypeError", "not a valid non-string sequence or mapping object"))
    ELSE IF \E k \in 1..Len(query.v) : Len(query.v[k].elems) # 2
    THEN Raise(PyExc("ValueError", "values to unpack"))
    ELSE IF \E k \in 1..Len(query.v) : \E j \in 1..2 : Unquotable(query.v[k].elems[j])
    THEN Raise(PyExc("UnicodeEncodeError", "surrogates not allowed"))
    ELSE Return(PyStr(JoinItems(query.v)))

----------------------------------------------------------------------------
(* decorator.py *)

VALID_URL_SCHEMES == {<<"http">>, <<"https">>}

FieldNames == {"url", "send_start", "send_diagnostics"}

\* f"{ENV_VAR_PREFIX}_{name.upper()}"
EnvVarName(name) ==
    CASE name = "url" -> "HEALTHCHECK_URL"
      [] name = "send_start" -> "HEALTHCHECK_SEND_START"
      [] name = "send_diagnostics" -> "HEALTHCHECK_SEND_DIAGNOSTICS"

EnvNames == {EnvVarName(n) : n \in FieldNames}

\* HealthcheckConfig(url=..., send_start=..., send_diagnostics=...)
HealthcheckConfig(url, send_start, send_diagnostics) ==
    [url |-> url, send_start |-> send_start, send_diagnostics |-> send_diagnostics]

\* __getattribute__, [2] and [3]: the environment variable, then the default
from_environment(name, envvar_value) ==
    IF Truthy(envvar_value)
    THEN IF name = "url" THEN envvar_value
         ELSE PyBool(Lower(Strip(envvar_value.v)) \in {<<"true">>, <<"1">>})
    ELSE IF name = "url" THEN PyNone ELSE PyBool(FALSE)

\* __getattribute__ with "if candidate:" in place of "if candidate is not None:"
getattribute_truthy(cfg, env, name) ==
    IF Truthy(cfg[name]) THEN cfg[name]
    ELSE from_environment(name, env[EnvVarName(name)])

\* HealthcheckConfig.__getattribute__(name), for a field name
getattribute(cfg, env, name) ==
    IF cfg[name] # PyNone THEN cfg[name]
    ELSE from_environment(name, env[EnvVarName(name)])

\* __bool__, inside the try: the scheme and netloc of the parsed url
config_bool_parsed(parsed_url) ==
    IF parsed_url.kind = "raise"
    THEN IF IsSubclass(parsed_url.val.cls, "AttributeError")
         THEN Return(PyBool(FALSE))
         ELSE parsed_url
    ELSE IF parsed_url.val.scheme \notin VALID_URL_SCHEMES THEN Return(PyBool(FALSE))
    ELSE IF parsed_url.val.netloc = <<>> THEN Return(PyBool(FALSE))
    ELSE Return(PyBool(TRUE))

\* __bool__ given self.url
config_bool_url(url) ==
    IF ~Truthy(url) THEN Return(PyBool(FALSE)) ELSE config_bool_parsed(urlparse(url))

\* HealthcheckConfig.__bool__(): Return(PyBool) or Raise
config_bool(cfg, env) == config_bool_url(getattribute(cfg, env, "url"))

\* _build_url_with_path with sep = "/" whatever the path ends with
build_url_parsed_slash(p, path) ==
    Return(PyStr(urlunparse(
        ParseResult(p.scheme, p.netloc, p.path \o <<"/">> \o <<path>>,
                    p.params, p.query, p.fragment))))

\* _build_url_with_path: the separator, the new path and urlunparse
build_url_parsed(p, path) ==
    Return(PyStr(urlunparse(
        ParseResult(p.scheme, p.netloc,
                    p.path \o (IF EndsWith(p.path, "/") THEN <<>> ELSE <<"/">>) \o <<path>>,
                    p.params, p.query, p.fragment))))

\* _build_url_with_path given urlparse(self.url)
build_url_outcome(parsed_url, path) ==
    IF parsed_url.kind = "raise" THEN parsed_url ELSE build_url_parsed(parsed_url.val, path)

\* _build_url_with_path given self.url: urlparse of a falsy non-str gives a
\* bytes result, on which endswith("/") is a TypeError
build_url_from(url, path) ==
    IF url.cls # "str" /\ ~Truthy(url)
    THEN Raise(PyExc("TypeError", "endswith first arg must be bytes"))
    ELSE build_url_outcome(urlparse(url), path)

\* HealthcheckConfig._build_url_with_path(path): Return(PyStr) or Raise
build_url_with_path(cfg, env, path) ==
    build_url_from(getattribute(cfg, env, "url"), path)

start_url(cfg, env) == build_url_with_path(cfg, env, "start")

fail_url(cfg, env) == build_url_with_path(cfg, env, "fail")

\* one entry of the record of a call
UrlopenEvent(endpoint, data, out) ==
    [op |-> "urlopen", endpoint |-> endpoint, data |-> data, out |-> out]

FuncEvent(out) == [op |-> "func", endpoint |-> PyNone, data |-> PyNone, out |-> out]

\* _http_request given what urlopen did: OSError is caught, anything else propagates
http_request_result(endpoint, data, out) ==
    [events |-> <<UrlopenEvent(endpoint, data, out)>>,
     out |-> IF out = "ok" THEN Return(PyBool(TRUE))
             ELSE IF IsSubclass(out, "OSError") THEN Return(PyBool(FALSE))
             ELSE Raise(PyExc(out, "urlopen"))]

\* _http_request(endpoint, data=data): the urlopen call it makes, and Return(bool) or Raise
http_request(endpoint, data, net) ==
    http_request_result(endpoint, data, urlopen(endpoint, net))

\* _http_request(config.start_url) or _http_request(config.fail_url): the
\* property is evaluated first and may raise
http_request_to(endpoint, net) ==
    IF endpoint.kind = "raise" THEN [events |-> <<>>, out |-> endpoint]
    ELSE http_request(endpoint.val, PyNone, net)

\* _validate_diagnostics given what urlencode did: TypeError is caught
validate_diagnostics_result(enc) ==
    IF enc.kind = "return" THEN Return(PyBytes(enc.val.v))
    ELSE IF IsSubclass(enc.val.cls, "TypeError") THEN Return(PyNone)
    ELSE enc

\* _validate_diagnostics(diag): Return(bytes or None) or Raise
validate_diagnostics(diag) == validate_diagnostics_result(urlencode(diag))

\* what a call leaves: its events, the outcome of func, what the caller gets
CallRecord(evs, tgt, res) == [events |-> evs, target |-> tgt, result |-> res]

\* healthcheck_wrapper, line 202: after the fail ping, raise e
wrapper_raise(tgt, evs, e, failed) ==
    CallRecord(evs \o failed.events, tgt,
               IF failed.out.kind = "raise" THEN failed.out ELSE e)

\* healthcheck_wrapper, lines 200-201: e raised inside the try block
wrapper_except(cfg, env, tgt, net, evs, e) ==
    IF IsSubclass(e.val.cls, "Exception")
    THEN wrapper_raise(tgt, evs, e, http_request_to(fail_url(cfg, env), net["fail"]))
    ELSE CallRecord(evs, tgt, e)

\* healthcheck_wrapper, line 199: after the success ping, return wrapped_result
wrapper_return(cfg, env, tgt, net, evs, sent) ==
    IF sent.out.kind = "raise"
    THEN wrapper_except(cfg, env, tgt, net, evs \o sent.events, sent.out)
    ELSE CallRecord(evs \o sent.events, tgt, tgt)

\* healthcheck_wrapper, lines 193-198: the success ping with the diagnostics
wrapper_success(cfg, env, tgt, net, evs, data) ==
    IF data.kind = "raise"
    THEN wrapper_except(cfg, env, tgt, net, evs, data)
    ELSE wrapper_return(cfg, env, tgt, net, evs,
                        http_request(getattribute(cfg, env, "url"), data.val, net["success"]))

\* healthcheck_wrapper, lines 191-192: func(*args, **kwargs) behaves as tgt
wrapper_try(cfg, env, tgt, net, evs) ==
    IF tgt.kind = "raise"
    THEN wrapper_except(cfg, env, tgt, net, evs \o <<FuncEvent("raise")>>, tgt)
    ELSE wrapper_success(cfg, env, tgt, net, evs \o <<FuncEvent("return")>>,
                         IF Truthy(getattribute(cfg, env, "send_diagnostics"))
                         THEN validate_diagnostics(tgt.val)
                         ELSE Return(PyNone))

\* healthcheck_wrapper, line 189: after the start ping
wrapper_started(cfg, env, tgt, net, started) ==
    IF started.out.kind = "raise"
    THEN CallRecord(started.events, NoOutcome, started.out)
    ELSE wrapper_try(cfg, env, tgt, net, started.events)

\* healthcheck_wrapper, lines 188-189: the start ping
wrapper_start(cfg, env, tgt, net) ==
    wrapper_started(cfg, env, tgt, net,
                    IF Truthy(getattribute(cfg, env, "send_start"))
                    THEN http_request_to(start_url(cfg, env), net["start"])
                    ELSE [events |-> <<>>, out |-> Return(PyNone)])

\* healthcheck_wrapper(*args, **kwargs) with func behaving as tgt and the
\* network answering the start, success and fail pings as net says
healthcheck_wrapper(cfg, env, tgt, net) ==
    IF getattribute(cfg, env, "url") = PyNone
    THEN CallRecord(<<>>, NoOutcome, Raise(PyExc("AssertionError", "")))
    ELSE wrapper_start(cfg, env, tgt, net)

\* func(*args, **kwargs) called directly: healthcheck returned func itself
plain_func(tgt) == CallRecord(<<FuncEvent(tgt.kind)>>, tgt, tgt)

\* healthcheck, lines 181-204, given bool(config)
healthcheck_valid(valid) ==
    IF valid.kind = "raise" THEN "raised"
    ELSE IF ~Truthy(valid.val) THEN "func"
    ELSE "wrapper"

\* healthcheck(func, url=..., send_start=..., send_diagnostics=...): what it gives
healthcheck(url, send_start, send_diagnostics, env) ==
    healthcheck_valid(config_bool(HealthcheckConfig(url, send_start, send_diagnostics), env))

----------------------------------------------------------------------------
(* inputs *)

MaxCalls == 2

UrlPlain == <<"https", ":", "/", "/", "h", "/", "a">>

UrlQuery == <<"http", ":", "/", "/", "h", "/", "b", "/", "?", "q">>

UrlSpace == <<"https", ":", "/", "/", "h", "/", "a", " ", "b">>

UrlBracket == <<"http", ":", "/", "/", "[">>

UrlFtp == <<"ftp", ":", "/", "/", "h", "/", "a">>

UrlBare == <<"a">>

ExplicitUrls ==
    {PyNone, PyStr(<<>>), PyStr(UrlPlain), PyStr(UrlSpace), PyStr(UrlBracket),
     PyStr(UrlFtp), PyFloat}

ExplicitFlags == {PyNone, PyBool(TRUE)}

EnvValues(name) ==
    CASE name = "HEALTHCHECK_URL" -> {PyNone, PyStr(UrlQuery), PyStr(UrlBare)}
      [] name = "HEALTHCHECK_SEND_START" -> {PyNone, PyStr(<<"1">>)}
      [] OTHER -> {PyNone}

TargetOutcomes ==
    {Return(PyBool(TRUE)),
     Return(PyDict(<<Item(TRUE, <<"a", "b">>)>>)),
     Return(PyStr(<<"a">>)),
     Return(PyList(<<Item(TRUE, <<"a", "b", "q">>)>>)),
     Raise(PyExc("Exception", "boom")),
     Raise(PyExc("SystemExit", "1"))}

Pings == {"start", "success", "fail"}

----------------------------------------------------------------------------
(* the life of one decorated function *)

NoAttr == [name |-> "", value |-> PyNone]

NoUrlOp == [op |-> "", out |-> NoOutcome]

NoCall == CallRecord(<<>>, NoOutcome, NoOutcome)

Init ==
    /\ environ = [n \in EnvNames |-> PyNone]
    /\ config = HealthcheckConfig(PyNone, PyNone, PyNone)
    /\ decorated_as = "none"
    /\ call = NoCall
    /\ ncalls = 0
    /\ attr = NoAttr
    /\ url_op = NoUrlOp

\* os.environ[name] = value, or del os.environ[name]
SetEnv(name, value) ==
    /\ environ[name] # value
    /\ environ' = [environ EXCEPT ![name] = value]
    /\ UNCHANGED <<config, decorated_as, call, ncalls, attr, url_op>>

\* @healthcheck(url=url, send_start=send_start, send_diagnostics=send_diagnostics)
Decorate(url, send_start, send_diagnostics) ==
    /\ decorated_as = "none"
    /\ config' = HealthcheckConfig(url, send_start, send_diagnostics)
    /\ decorated_as' = healthcheck(url, send_start, send_diagnostics, environ)
    /\ UNCHANGED <<environ, call, ncalls, attr, url_op>>

\* one call of the decorated function when healthcheck gave the wrapper
CallWrapper(tgt, net) ==
    /\ decorated_as = "wrapper"
    /\ ncalls < MaxCalls
    /\ call' = healthcheck_wrapper(config, environ, tgt, net)
    /\ ncalls' = ncalls + 1
    /\ UNCHANGED <<environ, config, decorated_as, attr, url_op>>

\* one call of the decorated function when healthcheck gave func back
CallFunc(tgt) ==
    /\ decorated_as = "func"
    /\ ncalls < MaxCalls
    /\ call' = plain_func(tgt)
    /\ ncalls' = ncalls + 1
    /\ UNCHANGED <<environ, config, decorated_as, attr, url_op>>

Next ==
    \/ \E name \in EnvNames : \E value \in EnvValues(name) : SetEnv(name, value)
    \/ \E url \in ExplicitUrls : \E ss \in ExplicitFlags : \E sd \in ExplicitFlags :
          Decorate(url, ss, sd)
    \/ \E tgt \in TargetOutcomes : \E net \in [Pings -> NetOutcomes] : CallWrapper(tgt, net)
    \/ \E tgt \in TargetOutcomes : CallFunc(tgt)

Spec == Init /\ [][Next]_vars

----------------------------------------------------------------------------
(* HealthcheckConfig.__getattribute__ on its own: every explicit value
   against every value of the environment *)

MaxPad == 1

RECURSIVE Spaces(_)
Spaces(n) == IF n = 0 THEN <<>> ELSE <<" ">> \o Spaces(n - 1)

\* what HEALTHCHECK_SEND_START may hold: a word with up to MaxPad spaces on
\* either side, nothing but spaces, the empty string, or nothing (unset)
FlagWords == {<<"1">>, <<"true">>, <<"TRue">>, <<"false">>, <<"yes">>, <<>>}

EnvFlagValues ==
    {PyNone} \cup
    {PyStr(Spaces(l) \o w \o Spaces(r)) : l \in 0..MaxPad, r \in 0..MaxPad, w \in FlagWords}

ConfigEnvValues(name) ==
    CASE name = "HEALTHCHECK_URL" -> {PyNone, PyStr(<<>>), PyStr(UrlQuery)}
      [] name = "HEALTHCHECK_SEND_START" -> EnvFlagValues
      [] OTHER -> {PyNone, PyStr(<<"1">>), PyStr(<<"false">>)}

AllFlags == {PyNone, PyBool(TRUE), PyBool(FALSE)}

InitConfig ==
    /\ environ \in {e \in [EnvNames -> UNION {ConfigEnvValues(n) : n \in EnvNames}] :
                       \A n \in EnvNames : e[n] \in ConfigEnvValues(n)}
    /\ config \in {HealthcheckConfig(u, ss, sd) :
                      u \in {PyNone, PyStr(<<>>), PyStr(UrlPlain)},
                      ss \in AllFlags, sd \in AllFlags}
    /\ decorated_as = "none"
    /\ call = NoCall
    /\ ncalls = 0
    /\ attr = NoAttr
    /\ url_op = NoUrlOp

\* config.<name>
GetAttr(name) ==
    /\ attr' = [name |-> name, value |-> getattribute(config, environ, name)]
    /\ UNCHANGED <<environ, config, decorated_as, call, ncalls, url_op>>

NextConfig == \E name \in FieldNames : GetAttr(name)

SpecConfig == InitConfig /\ [][NextConfig]_vars

----------------------------------------------------------------------------
(* HealthcheckConfig.__bool__, start_url and fail_url on their own: every
   url put together from a scheme, an authority, a path, a query and a fragment *)

MaxPathSegs == 2

SchemeParts ==
    {<<>>, <<"a">>, <<"http", ":">>, <<"https", ":">>, <<"HTTPS", ":">>,
     <<" ", "https", ":">>, <<"ftp", ":">>}

AuthorityParts == {<<>>, <<"/", "/">>, <<"/", "/", "h">>, <<"/", "/", "[">>}

Segments == {<<"/">>, <<"/", "a">>, <<"/", "a", ";", "p">>, <<"/", "a", " ", "b">>}

RECURSIVE Paths(_)
Paths(n) ==
    IF n = 0 THEN {<<>>}
    ELSE Paths(n - 1) \cup {p \o seg : p \in Paths(n - 1), seg \in Segments}

QueryParts == {<<>>, <<"?">>, <<"?", "q">>, <<"?", "q", ";", "p", "/">>}

FragmentParts == {<<>>, <<"#", "f">>}

UrlInputs ==
    {PyNone, PyFloat} \cup
    {PyStr(s \o a \o p \o q \o f) :
        s \in SchemeParts, a \in AuthorityParts, p \in Paths(MaxPathSegs),
        q \in QueryParts, f \in FragmentParts}

InitUrl ==
    /\ environ = [n \in EnvNames |-> PyNone]
    /\ config \in {HealthcheckConfig(u, PyNone, PyNone) : u \in UrlInputs}
    /\ decorated_as = "none"
    /\ call = NoCall
    /\ ncalls = 0
    /\ attr = NoAttr
    /\ url_op = NoUrlOp

\* bool(config)
Validate ==
    /\ url_op' = [op |-> "bool", out |-> config_bool(config, environ)]
    /\ UNCHANGED <<environ, config, decorated_as, call, ncalls, attr>>

\* config.start_url, config.fail_url
BuildUrl(path) ==
    /\ url_op' = [op |-> path, out |-> build_url_with_path(config, environ, path)]
    /\ UNCHANGED <<environ, config, decorated_as, call, ncalls, attr>>

NextUrl == Validate \/ \E path \in {"start", "fail"} : BuildUrl(path)

SpecUrl == InitUrl /\ [][NextUrl]_vars

----------------------------------------------------------------------------
(* the vocabulary of the properties *)

\* the requests of a call, in the order they were issued
Requests(evs) == SelectSeq(evs, LAMBDA e : e.op = "urlopen")

RequestsTo(evs, endpoint) ==
    SelectSeq(evs, LAMBDA e : e.op = "urlopen" /\ e.endpoint = endpoint)

\* <<endpoint, body>> of every request of a call, in order
PingSequence(evs) ==
    [i \in 1..Len(Requests(evs)) |-> <<Requests(evs)[i].endpoint, Requests(evs)[i].data>>]

\* every request of the call was answered, or failed with an OSError
PingsAbsorbed(evs) ==
    \A i \in 1..Len(evs) : evs[i].op = "urlopen" => evs[i].out \in {"ok", "OSError"}

\* the network failed a request of the call
TransportFailed(e) == e.op = "urlopen" /\ e.out \in NetOutcomes \ {"ok"}

\* the settings a call resolves
BaseUrl == getattribute(config, environ, "url")

SendStart == Truthy(getattribute(config, environ, "send_start"))

SendDiagnostics == Truthy(getattribute(config, environ, "send_diagnostics"))

StartUrl == start_url(config, environ).val

FailUrl == fail_url(config, environ).val

StartPings == IF SendStart THEN <<<<StartUrl, PyNone>>>> ELSE <<>>

\* a valid url: present, a non-empty string that parses, with scheme http or
\* https and a non-empty host
SpecValid(url) ==
    /\ url.cls = "str"
    /\ url.v # <<>>
    /\ urlparse(url).kind = "return"
    /\ urlparse(url).val.scheme \in {<<"http">>, <<"https">>}
    /\ urlparse(url).val.netloc # <<>>

\* a step that is one call of the wrapper, its config being valid
WrapperCall == decorated_as = "wrapper" /\ ncalls' = ncalls + 1 /\ SpecValid(BaseUrl)

\* the "/" that belongs between a path and a segment appended to it
Separator(path) == IF EndsWith(path, "/") THEN <<>> ELSE <<"/">>

----------------------------------------------------------------------------
(* the properties *)

\* C1: in a call of a function wrapped with a valid config, when the target
\* raises E (and every ping is answered or fails with an OSError), the requests
\* of the call are the start ping (if sendStart) and then exactly one request
\* to the fail URL with no body, issued after the target raised; none goes to
\* the base URL; the caller gets E.
C1_TargetErrorPath ==
    [][(WrapperCall /\ call'.target.kind = "raise" /\ PingsAbsorbed(call'.events)) =>
          /\ call'.result = call'.target
          /\ PingSequence(call'.events) = StartPings \o <<<<FailUrl, PyNone>>>>
          /\ call'.events[Len(call'.events)].op = "urlopen"
          /\ call'.events[Len(call'.events) - 1] = FuncEvent("raise")]_vars

\* C2: in a call of a function wrapped with a valid config, when the target
\* returns R (and every ping is answered or fails with an OSError), the events
\* are the start ping (if sendStart), then the target, then exactly one request
\* to the base URL; the caller gets R.
C2_SuccessSequence ==
    [][(WrapperCall /\ call'.target.kind = "return" /\ PingsAbsorbed(call'.events)) =>
          /\ call'.result = call'.target
          /\ Len(Requests(call'.events)) = (IF SendStart THEN 2 ELSE 1)
          /\ SendStart => call'.events[1] = Requests(call'.events)[1]
          /\ SendStart => Requests(call'.events)[1].endpoint = StartUrl
          /\ call'.events[Len(call'.events) - 1] = FuncEvent("return")
          /\ call'.events[Len(call'.events)].op = "urlopen"
          /\ call'.events[Len(call'.events)].endpoint = BaseUrl]_vars

\* C3: when the network fails a ping of a call (one that sends no
\* diagnostics), the failure does not reach the caller: the target is invoked
\* all the same, the caller gets what the target returned or raised, and a
\* failed success ping is followed by no fail ping.
C3_TransportFailureAbsorbed ==
    [][(WrapperCall /\ ~SendDiagnostics /\ \E i \in 1..Len(call'.events) : TransportFailed(call'.events[i])) =>
          /\ call'.target.kind # "none"
          /\ call'.result = call'.target
          /\ (\E i \in 1..Len(call'.events) :
                 TransportFailed(call'.events[i]) /\ call'.events[i].endpoint = BaseUrl)
             => RequestsTo(call'.events, FailUrl) = <<>>]_vars

\* C4: whatever was done to the environment since the decoration, a call that
\* sends no diagnostics and whose pings were all answered or failed with an
\* OSError raises only what the target raised.
C4_OnlyTargetErrors ==
    [][(/\ ncalls' = ncalls + 1
        /\ ~SendDiagnostics
        /\ PingsAbsorbed(call'.events)
        /\ call'.result.kind = "raise") =>
          (call'.target.kind = "raise" /\ call'.result = call'.target)]_vars

\* C5: decorating with a config that is not valid gives the target function
\* back, and every call of it issues no request and gives what the target gives.
C5_InvalidConfigPassthrough ==
    [][/\ (decorated_as = "none" /\ decorated_as' # "none"
              /\ ~SpecValid(getattribute(config', environ', "url")))
          => decorated_as' = "func"
       /\ (decorated_as = "func" /\ ncalls' = ncalls + 1)
          => /\ Requests(call'.events) = <<>>
             /\ call'.target.kind # "none"
             /\ call'.result = call'.target]_vars

\* C6: with sendDiagnostics on and a valid config, when the target returns R
\* (and every ping is answered or fails with an OSError): the caller gets R, no
\* request goes to the fail URL, exactly one goes to the base URL, and its body
\* is the form-encoded bytes of R when R can be encoded and absent when not.
C6_DiagnosticsEncoding ==
    [][(WrapperCall /\ SendDiagnostics /\ call'.target.kind = "return"
           /\ PingsAbsorbed(call'.events)) =>
          /\ call'.result = call'.target
          /\ RequestsTo(call'.events, FailUrl) = <<>>
          /\ Len(RequestsTo(call'.events, BaseUrl)) = 1
          /\ RequestsTo(call'.events, BaseUrl)[1].data =
                IF urlencode(call'.target.val).kind = "return"
                THEN PyBytes(urlencode(call'.target.val).val.v)
                ELSE PyNone]_vars

\* C7, as stated: an explicit value that is not None wins; otherwise a set,
\* non-empty environment variable wins: the url as it is, a flag true exactly
\* when the value is "true" or "1" in any case; otherwise the default.
C7_AsStated ==
    attr.name # "" =>
        /\ config[attr.name] # PyNone => attr.value = config[attr.name]
        /\ (config[attr.name] = PyNone /\ Truthy(environ[EnvVarName(attr.name)])) =>
              attr.value = IF attr.name = "url" THEN environ[EnvVarName(attr.name)]
                           ELSE PyBool(Lower(environ[EnvVarName(attr.name)].v)
                                          \in {<<"true">>, <<"1">>})
        /\ (config[attr.name] = PyNone /\ ~Truthy(environ[EnvVarName(attr.name)])) =>
              attr.value = IF attr.name = "url" THEN PyNone ELSE PyBool(FALSE)

\* C7, amended: the same, a flag being true exactly when the value of the
\* environment variable, with the whitespace around it removed, is "true" or
\* "1" in any case.
C7_ResolutionOrder ==
    attr.name # "" =>
        /\ config[attr.name] # PyNone => attr.value = config[attr.name]
        /\ (config[attr.name] = PyNone /\ Truthy(environ[EnvVarName(attr.name)])) =>
              attr.value = IF attr.name = "url" THEN environ[EnvVarName(attr.name)]
                           ELSE PyBool(Lower(Strip(environ[EnvVarName(attr.name)].v))
                                          \in {<<"true">>, <<"1">>})
        /\ (config[attr.name] = PyNone /\ ~Truthy(environ[EnvVarName(attr.name)])) =>
              attr.value = IF attr.name = "url" THEN PyNone ELSE PyBool(FALSE)

\* an unset send_start read from HEALTHCHECK_SEND_START=" TRue" as True, while
\* the explicit url "" stood against the HEALTHCHECK_URL that is set
C7_Witness ==
    /\ attr = [name |-> "send_start", value |-> PyBool(TRUE)]
    /\ config.send_start = PyNone
    /\ environ["HEALTHCHECK_SEND_START"] = PyStr(<<" ", "TRue">>)
    /\ config.url = PyStr(<<>>)
    /\ environ["HEALTHCHECK_URL"] = PyStr(UrlQuery)

\* C8: bool(config) returns for every url, and returns True exactly for a
\* valid one.
C8_ValidityTotal ==
    url_op.op = "bool" =>
        /\ url_op.out.kind = "return"
        /\ url_op.out.val = PyBool(SpecValid(config.url))

\* C9, as stated: the url split into scheme, host, path, query and fragment;
\* start_url and fail_url of a valid url keep its scheme, host, query and
\* fragment, and their path is its path, one "/" and the segment.
C9_AsStated ==
    (url_op.op \in {"start", "fail"} /\ SpecValid(config.url)) =>
        /\ url_op.out.kind = "return"
        /\ url_op.out.val.cls = "str"
        /\ urlsplit(url_op.out.val.v).kind = "return"
        /\ urlsplit(url_op.out.val.v).val.scheme = urlsplit(config.url.v).val.scheme
        /\ urlsplit(url_op.out.val.v).val.netloc = urlsplit(config.url.v).val.netloc
        /\ urlsplit(url_op.out.val.v).val.query = urlsplit(config.url.v).val.query
        /\ urlsplit(url_op.out.val.v).val.fragment = urlsplit(config.url.v).val.fragment
        /\ urlsplit(url_op.out.val.v).val.path =
              urlsplit(config.url.v).val.path
              \o Separator(urlsplit(config.url.v).val.path) \o <<url_op.op>>

\* C9, amended: the url split as urlparse splits it, the parameters (what
\* follows ";" in the last segment of the path) apart from the path;
\* start_url and fail_url of a valid url keep its scheme, host, parameters,
\* query and fragment, and their path is its path, one "/" and the segment.
C9_DerivedUrls ==
    (url_op.op \in {"start", "fail"} /\ SpecValid(config.url)) =>
        /\ url_op.out.kind = "return"
        /\ url_op.out.val.cls = "str"
        /\ urlparse(url_op.out.val).kind = "return"
        /\ urlparse(url_op.out.val).val.scheme = urlparse(config.url).val.scheme
        /\ urlparse(url_op.out.val).val.netloc = urlparse(config.url).val.netloc
        /\ urlparse(url_op.out.val).val.params = urlparse(config.url).val.params
        /\ urlparse(url_op.out.val).val.query = urlparse(config.url).val.query
        /\ urlparse(url_op.out.val).val.fragment = urlparse(config.url).val.fragment
        /\ urlparse(url_op.out.val).val.path =
              urlparse(config.url).val.path
              \o Separator(urlparse(config.url).val.path) \o <<url_op.op>>

\* the start url of https://h/a;p/?q#f, a path that ends with "/" after a
\* segment with parameters, before a query and a fragment
C9_Witness ==
    /\ url_op.op = "start"
    /\ config.url = PyStr(<<"https", ":", "/", "/", "h", "/", "a", ";", "p", "/", "?", "q", "#", "f">>)
    /\ url_op.out = Return(PyStr(<<"https", ":", "/", "/", "h", "/", "a", ";", "p", "/", "start",
                                    "?", "q", "#", "f">>))

\* C10: two calls in a row of the wrapper in which the target does the same
\* (and every ping is answered or fails with an OSError) issue the same
\* requests, endpoint by endpoint and body by body, whatever happened to the
\* environment between them.
C10_ConfigFixedAtDecoration ==
    [][(/\ decorated_as = "wrapper"
        /\ ncalls >= 1
        /\ ncalls' = ncalls + 1
        /\ call'.target = call.target
        /\ PingsAbsorbed(call.events)
        /\ PingsAbsorbed(call'.events)) =>
          PingSequence(call'.events) = PingSequence(call.events)]_vars

====
